---- MODULE Spec2Model ----
(***************************************************************************)
(* Model of src/chatapp.py: the in-memory conversation store, the          *)
(* per-viewer seen marks and the request handlers that use them.           *)
(*                                                                         *)
(* The handlers run in the threads of the Flask development server, so a   *)
(* handler is a sequence of steps and the steps of different handlers      *)
(* interleave.  A step is one operation on a shared dict or list (each is  *)
(* atomic in CPython); the locals of a handler are in req[h].              *)
(*                                                                         *)
(* A Python str is a sequence of code points (<<104, 105>> is "hi"), so    *)
(* that lower(), strip() and the ordering used by sorted() are computed.   *)
(***************************************************************************)
EXTENDS Integers, Sequences, FiniteSets, TLC

(* ---------------------------- bounds ----------------------------------- *)

\* number of request-handler threads
NumHandlers == 2
\* sends are admitted while fewer than this many messages are stored or in flight
MaxMessages == 2

Handlers == 1..NumHandlers

(* ---------------------------- strings ---------------------------------- *)

\* the code points str.strip() removes and str.isspace() accepts (below 256)
Whitespace == {9, 10, 11, 12, 13, 28, 29, 30, 31, 32, 133, 160}

RECURSIVE lstrip(_)
lstrip(s) == IF s # <<>> /\ Head(s) \in Whitespace THEN lstrip(Tail(s)) ELSE s

RECURSIVE rstrip(_)
rstrip(s) ==
    IF s # <<>> /\ s[Len(s)] \in Whitespace
    THEN rstrip(SubSeq(s, 1, Len(s) - 1))
    ELSE s

\* str.strip()
strip(s) == rstrip(lstrip(s))

\* str.lower() on the ASCII letters
lower(s) == [i \in DOMAIN s |-> IF s[i] \in 65..90 THEN s[i] + 32 ELSE s[i]]

\* s < t for two str: the order sorted() uses
RECURSIVE StrLess(_, _)
StrLess(s, t) ==
    IF t = <<>> THEN FALSE
    ELSE IF s = <<>> THEN TRUE
    ELSE IF Head(s) # Head(t) THEN Head(s) < Head(t)
    ELSE StrLess(Tail(s), Tail(t))

\* None, and the falsy empty str: "if not x" takes both the same way
None == <<>>

(* ---------------------------- inputs ----------------------------------- *)

\* "", "a", " B": the usernames typed into the login form
LoginNames == {<<>>, <<97>>, <<32, 66>>}
\* "", "e": the languages typed into the login form
LoginLanguages == {<<>>, <<101>>}
\* "a", "B", "d": the <partner> of a chat URL ("d" never logs in)
PartnerNames == {<<97>>, <<66>>, <<100>>}
\* " ", " hi ": the "message" of a send request
RawMessages == {<<32>>, <<32, 104, 105, 32>>}
\* "", "t ": response.text of a provider call that returns
ProviderTexts == {<<>>, <<116, 32>>}

(* ---------------------------- dicts ------------------------------------ *)

\* d[k] = v
Put(d, k, v) == [x \in DOMAIN d \cup {k} |-> IF x = k THEN v ELSE d[x]]

\* d.get(k, default)
Get(d, k, default) == IF k \in DOMAIN d THEN d[k] ELSE default

\* d.setdefault(k, default), the dict afterwards
SetDefault(d, k, default) == IF k \in DOMAIN d THEN d ELSE Put(d, k, default)

EmptyDict == [x \in {} |-> None]

(* ---------------------------- state ------------------------------------ *)

VARIABLES
    users,          \* username -> [display_name, language]
    conversations,  \* conversation key -> list of entries
    user_seen,      \* username -> (conversation key -> seen mark)
    pc,             \* handler -> the step it is at
    req,            \* handler -> its locals and its response
    appended        \* conversation key -> the entries list.append() took, in order

vars == <<users, conversations, user_seen, pc, req, appended>>

\* the locals of a handler that serves no request
IdleReq ==
    [kind |-> "none", user |-> None, partner |-> None, text |-> None,
     translated |-> None, n |-> 0, live |-> FALSE, i |-> 0, view |-> <<>>,
     mark_seen |-> FALSE, returned |-> FALSE, response_text |-> None,
     query |-> None, todo |-> {}, size |-> 0, matches |-> <<>>,
     recent_contacts |-> <<>>, seen_partners |-> {},
     resp |-> [status |-> 0]]

Init ==
    /\ users = EmptyDict
    /\ conversations = EmptyDict
    /\ user_seen = EmptyDict
    /\ pc = [h \in Handlers |-> "idle"]
    /\ req = [h \in Handlers |-> IdleReq]
    /\ appended = EmptyDict

(* ---------------------------- helpers ---------------------------------- *)

current_user(session) ==
    IF session # None /\ session \in DOMAIN users THEN session ELSE None

\* the session cookies that exist: no cookie, or the username a login stored
Sessions == {None} \cup DOMAIN users

\* the key without sorted(): the pair in the order of the arguments
conversation_key_unsorted(user_a, user_b) == <<user_a, user_b>>

conversation_key(user_a, user_b) ==
    IF StrLess(user_b, user_a) THEN <<user_b, user_a>> ELSE <<user_a, user_b>>

\* response.text.strip(), whatever the response holds
translate_message_no_fallback(message_text, response_text) ==
    strip(response_text)

\* response.text.strip() if response.text else message_text
translate_message(message_text, response_text) ==
    IF response_text # <<>> THEN strip(response_text) ELSE message_text

\* user_seen after ensure_user_seen(username)
ensure_user_seen(seen, username) == SetDefault(seen, username, EmptyDict)

\* len(conversations.get(key, []))
LogLen(convs, key) == Len(Get(convs, key, <<>>))

\* the store as "+=": the length is added to the mark
StoreSeen_adds(seen, viewer, key, n) ==
    LET s == SetDefault(seen, viewer, EmptyDict)
    IN  [s EXCEPT ![viewer] = Put(@, key, Get(@, key, 0) + n)]

\* user_seen after ensure_user_seen(viewer)[key] = n
StoreSeen(seen, viewer, key, n) ==
    LET s == ensure_user_seen(seen, viewer)
    IN  [s EXCEPT ![viewer] = Put(@, key, n)]

\* user_seen after a call of mark_conversation_seen that nothing interleaves
mark_conversation_seen(seen, convs, viewer, partner_key) ==
    LET key == conversation_key(viewer, partner_key)
    IN  StoreSeen(seen, viewer, key, LogLen(convs, key))

\* ensure_user_seen(username).get(key, 0)
SeenOf(seen, username, key) == Get(Get(seen, username, EmptyDict), key, 0)

\* the value unread_count returns
unread_count_in(seen, convs, username, partner_key) ==
    LET key   == conversation_key(username, partner_key)
        total == LogLen(convs, key)
        mark  == SeenOf(seen, username, key)
    IN  IF total - mark > 0 THEN total - mark ELSE 0

unread_count(username, partner_key) ==
    unread_count_in(user_seen, conversations, username, partner_key)

\* the entry save_message builds
Entry(sender, recipient, original_text, translated_text) ==
    [sender |-> sender, recipient |-> recipient,
     original_text |-> original_text, translated_text |-> translated_text]

\* "You"
You == <<89, 111, 117>>

\* the element with primary_text = entry["translated_text"] for the other party
ViewEntry_no_fallback(viewer, partner_key, entry) ==
    LET is_self      == entry.sender = viewer
        partner_data == users[partner_key]
    IN  [is_self         |-> is_self,
         sender_label    |-> IF is_self THEN You
                             ELSE users[entry.sender].display_name,
         primary_text    |-> IF is_self THEN entry.original_text
                             ELSE entry.translated_text,
         secondary_label |-> IF is_self
                             THEN [format   |-> "Translated for {} ({}):",
                                   name     |-> partner_data.display_name,
                                   language |-> partner_data.language]
                             ELSE [format   |-> "Original message in {}:",
                                   name     |-> None,
                                   language |-> users[entry.sender].language],
         secondary_text  |-> IF is_self THEN entry.translated_text
                             ELSE entry.original_text,
         created_by      |-> entry.sender]

\* one element of messages_for_view; a label is its format and the values put in it
ViewEntry(viewer, partner_key, entry) ==
    LET is_self      == entry.sender = viewer
        partner_data == users[partner_key]
    IN  [is_self         |-> is_self,
         sender_label    |-> IF is_self THEN You
                             ELSE users[entry.sender].display_name,
         primary_text    |-> IF is_self THEN entry.original_text
                             ELSE IF entry.translated_text # <<>>
                                  THEN entry.translated_text
                                  ELSE entry.original_text,
         secondary_label |-> IF is_self
                             THEN [format   |-> "Translated for {} ({}):",
                                   name     |-> partner_data.display_name,
                                   language |-> partner_data.language]
                             ELSE [format   |-> "Original message in {}:",
                                   name     |-> None,
                                   language |-> users[entry.sender].language],
         secondary_text  |-> IF is_self THEN entry.translated_text
                             ELSE entry.original_text,
         created_by      |-> entry.sender]

\* messages stored, and messages of sends that passed validation and may still be stored
StoredMessages ==
    LET RECURSIVE Sum(_)
        Sum(ks) == IF ks = {} THEN 0
                   ELSE LET k == CHOOSE x \in ks : TRUE
                        IN  Len(conversations[k]) + Sum(ks \ {k})
    IN  Sum(DOMAIN conversations)

PendingSends ==
    Cardinality({h \in Handlers :
        pc[h] \in {"translate", "save_setdefault", "save_append"}})

(* ---------------------------- login ------------------------------------ *)

\* POST / without a session.  The handler touches users and user_seen only,
\* and its response is a redirect or the login page: it is one step.
login(name_in, language_in) ==
    LET username_value == strip(name_in)
        language_value == strip(language_in)
        username_key   == lower(username_value)
    IN  /\ username_value # <<>>
        /\ IF username_key \in DOMAIN users
           THEN users' = [users EXCEPT ![username_key] =
                    [display_name |-> username_value,
                     language     |-> IF language_value # <<>>
                                      THEN language_value ELSE @.language]]
           ELSE /\ language_value # <<>>
                /\ users' = Put(users, username_key,
                        [display_name |-> username_value,
                         language     |-> language_value])
        /\ user_seen' = ensure_user_seen(user_seen, username_key)
        /\ UNCHANGED <<conversations, pc, req, appended>>

\* POST / that changes nothing: no username, or a first login without a language
login_rejected(name_in, language_in) ==
    LET username_value == strip(name_in)
        language_value == strip(language_in)
    IN  /\ \/ username_value = <<>>
           \/ lower(username_value) \notin DOMAIN users /\ language_value = <<>>
        /\ UNCHANGED vars

(* ---------------------------- send ------------------------------------- *)

\* a handler returns resp: of its locals only the request stays
Respond(h, resp) ==
    /\ pc' = [pc EXCEPT ![h] = "done"]
    /\ req' = [req EXCEPT ![h] =
           [IdleReq EXCEPT !.kind = req[h].kind, !.user = req[h].user,
                           !.partner = req[h].partner, !.text = req[h].text,
                           !.resp = resp]]

\* a handler returns resp before it has accepted the request
Reject(h, kind, resp) ==
    /\ pc' = [pc EXCEPT ![h] = "done"]
    /\ req' = [req EXCEPT ![h] = [IdleReq EXCEPT !.kind = kind, !.resp = resp]]

\* the send that takes the message as typed, without strip(), and lets a user
\* write to themself
send_message_as_typed(h, session, partner, message) ==
    LET user        == current_user(session)
        partner_key == lower(partner)
    IN  /\ pc[h] = "idle"
        /\ IF user = None
           THEN Reject(h, "send", [status |-> 401])
           ELSE IF partner_key \notin DOMAIN users
           THEN Reject(h, "send", [status |-> 400])
           ELSE IF message = <<>>
           THEN Reject(h, "send", [status |-> 400])
           ELSE /\ StoredMessages + PendingSends < MaxMessages
                /\ pc' = [pc EXCEPT ![h] = "translate"]
                /\ req' = [req EXCEPT ![h] =
                       [IdleReq EXCEPT !.kind = "send", !.user = user,
                                       !.partner = partner_key, !.text = message]]
        /\ UNCHANGED <<users, conversations, user_seen, appended>>

\* POST /chat/<partner>/send up to the call of translate_message
send_message(h, session, partner, message) ==
    LET user         == current_user(session)
        partner_key  == lower(partner)
        message_text == strip(message)
        r == [IdleReq EXCEPT !.kind = "send", !.user = user,
                             !.partner = partner_key, !.text = message_text]
    IN  /\ pc[h] = "idle"
        /\ IF user = None
           THEN Reject(h, "send", [status |-> 401])
           ELSE IF partner_key \notin DOMAIN users \/ partner_key = user
           THEN Reject(h, "send", [status |-> 400])
           ELSE IF message_text = <<>>
           THEN Reject(h, "send", [status |-> 400])
           ELSE /\ StoredMessages + PendingSends < MaxMessages
                /\ pc' = [pc EXCEPT ![h] = "translate"]
                /\ req' = [req EXCEPT ![h] = r]
        /\ UNCHANGED <<users, conversations, user_seen, appended>>

\* the provider call returns response_text; save_message is entered
translate_returns(h, response_text) ==
    /\ pc[h] = "translate"
    /\ pc' = [pc EXCEPT ![h] = "save_setdefault"]
    /\ req' = [req EXCEPT
           ![h].returned = TRUE,
           ![h].response_text = response_text,
           ![h].translated = translate_message(req[h].text, response_text)]
    /\ UNCHANGED <<users, conversations, user_seen, appended>>

\* the message saved before the provider call: the call raises and the
\* untranslated message stays in the log
translate_raises_after_save(h) ==
    LET key   == conversation_key(req[h].user, req[h].partner)
        entry == [sender |-> req[h].user, recipient |-> req[h].partner,
                  original_text |-> req[h].text, translated_text |-> <<>>]
    IN  /\ pc[h] = "translate"
        /\ conversations' = Put(conversations, key,
                                Append(Get(conversations, key, <<>>), entry))
        /\ appended' = Put(appended, key, Append(Get(appended, key, <<>>), entry))
        /\ pc' = [pc EXCEPT ![h] = "done"]
        /\ req' = [req EXCEPT ![h].resp = [status |-> 500]]
        /\ UNCHANGED <<users, user_seen>>

\* the provider call raises: the except clause answers 500
translate_raises(h) ==
    /\ pc[h] = "translate"
    /\ Respond(h, [status |-> 500])
    /\ UNCHANGED <<users, conversations, user_seen, appended>>

\* the bucket as "conversations[key] = []": a new list whatever the dict holds
save_setdefault_assigns(h) ==
    /\ pc[h] = "save_setdefault"
    /\ conversations' =
           Put(conversations, conversation_key(req[h].user, req[h].partner), <<>>)
    /\ pc' = [pc EXCEPT ![h] = "save_append"]
    /\ UNCHANGED <<users, user_seen, req, appended>>

\* bucket = conversations.setdefault(key, [])
save_setdefault(h) ==
    LET key == conversation_key(req[h].user, req[h].partner)
    IN  /\ pc[h] = "save_setdefault"
        /\ conversations' = SetDefault(conversations, key, <<>>)
        /\ pc' = [pc EXCEPT ![h] = "save_append"]
        /\ UNCHANGED <<users, user_seen, req, appended>>

\* the entry put in with bucket.insert(0, entry)
save_append_in_front(h) ==
    LET key   == conversation_key(req[h].user, req[h].partner)
        entry == [sender |-> req[h].user, recipient |-> req[h].partner,
                  original_text |-> req[h].text,
                  translated_text |-> req[h].translated]
    IN  /\ pc[h] = "save_append"
        /\ conversations' = [conversations EXCEPT ![key] = <<entry>> \o @]
        /\ appended' = Put(appended, key, Append(Get(appended, key, <<>>), entry))
        /\ pc' = [pc EXCEPT ![h] = "save_len"]
        /\ UNCHANGED <<users, user_seen, req>>

\* bucket.append(entry)
save_append(h) ==
    LET key   == conversation_key(req[h].user, req[h].partner)
        entry == Entry(req[h].user, req[h].partner, req[h].text, req[h].translated)
    IN  /\ pc[h] = "save_append"
        /\ conversations' = [conversations EXCEPT ![key] = Append(@, entry)]
        /\ appended' = Put(appended, key, Append(Get(appended, key, <<>>), entry))
        /\ pc' = [pc EXCEPT ![h] = "save_len"]
        /\ UNCHANGED <<users, user_seen, req>>

\* the length taken as len(bucket) + 1
save_len_plus_one(h) ==
    /\ pc[h] = "save_len"
    /\ req' = [req EXCEPT ![h].n =
           Len(conversations[conversation_key(req[h].user, req[h].partner)]) + 1]
    /\ pc' = [pc EXCEPT ![h] = "save_seen"]
    /\ UNCHANGED <<users, conversations, user_seen, appended>>

\* len(bucket), the right-hand side of the assignment to the seen mark
save_len(h) ==
    LET key == conversation_key(req[h].user, req[h].partner)
    IN  /\ pc[h] = "save_len"
        /\ req' = [req EXCEPT ![h].n = Len(conversations[key])]
        /\ pc' = [pc EXCEPT ![h] = "save_seen"]
        /\ UNCHANGED <<users, conversations, user_seen, appended>>

\* ensure_user_seen(sender)[key] = <the length read>; save_message returns
save_seen(h) ==
    LET key == conversation_key(req[h].user, req[h].partner)
    IN  /\ pc[h] = "save_seen"
        /\ user_seen' = StoreSeen(user_seen, req[h].user, key, req[h].n)
        /\ pc' = [pc EXCEPT ![h] = "serialize"]
        /\ UNCHANGED <<users, conversations, req, appended>>

(* ---------------------------- serialize_messages ----------------------- *)

\* the lookup as conversations.setdefault(key, []): a missing log is created
serialize_get_setdefault(h) ==
    LET key == conversation_key(req[h].user, req[h].partner)
    IN  /\ pc[h] = "serialize"
        /\ conversations' = SetDefault(conversations, key, <<>>)
        /\ req' = [req EXCEPT ![h].live = TRUE, ![h].i = 0, ![h].view = <<>>]
        /\ pc' = [pc EXCEPT ![h] = "serialize_loop"]
        /\ UNCHANGED <<users, user_seen, appended>>

\* raw_messages = conversations.get(key, []): the stored list, or a new empty one
serialize_get(h) ==
    LET key == conversation_key(req[h].user, req[h].partner)
    IN  /\ pc[h] = "serialize"
        /\ req' = [req EXCEPT ![h].live = key \in DOMAIN conversations,
                              ![h].i = 0, ![h].view = <<>>]
        /\ pc' = [pc EXCEPT ![h] = "serialize_loop"]
        /\ UNCHANGED <<users, conversations, user_seen, appended>>

\* the entries the for loop still has to visit: it reads the list as it is now
HasNext(h) ==
    /\ req[h].live
    /\ req[h].i < Len(conversations[conversation_key(req[h].user, req[h].partner)])

\* one iteration of "for entry in raw_messages"
serialize_next(h) ==
    LET key   == conversation_key(req[h].user, req[h].partner)
        entry == conversations[key][req[h].i + 1]
    IN  /\ pc[h] = "serialize_loop"
        /\ HasNext(h)
        /\ req' = [req EXCEPT
               ![h].i = @ + 1,
               ![h].view = Append(@, ViewEntry(req[h].user, req[h].partner, entry))]
        /\ UNCHANGED <<users, conversations, user_seen, pc, appended>>

\* the loop ends; send_message answers with messages_for_view[-1]
serialize_return(h) ==
    /\ pc[h] = "serialize_loop"
    /\ ~HasNext(h)
    /\ ~req[h].mark_seen
    /\ IF req[h].view = <<>>
       THEN Respond(h, [status |-> 500])
       ELSE Respond(h, [status |-> 200, message |-> req[h].view[Len(req[h].view)]])
    /\ UNCHANGED <<users, conversations, user_seen, appended>>

\* the loop ends with mark_seen set: mark_conversation_seen is called
serialize_end(h) ==
    /\ pc[h] = "serialize_loop"
    /\ ~HasNext(h)
    /\ req[h].mark_seen
    /\ pc' = [pc EXCEPT ![h] = "mark_len"]
    /\ UNCHANGED <<users, conversations, user_seen, req, appended>>

\* len(conversations.get(key, [])), the right-hand side of the assignment
mark_len(h) ==
    LET key == conversation_key(req[h].user, req[h].partner)
    IN  /\ pc[h] = "mark_len"
        /\ req' = [req EXCEPT ![h].n = LogLen(conversations, key)]
        /\ pc' = [pc EXCEPT ![h] = "mark_store"]
        /\ UNCHANGED <<users, conversations, user_seen, appended>>

\* the mark stored for both users of the pair
mark_store_for_both(h) ==
    LET key == conversation_key(req[h].user, req[h].partner)
    IN  /\ pc[h] = "mark_store"
        /\ user_seen' = StoreSeen(StoreSeen(user_seen, req[h].user, key, req[h].n),
                                  req[h].partner, key, req[h].n)
        /\ Respond(h, [status |-> 200, messages |-> req[h].view])
        /\ UNCHANGED <<users, conversations, appended>>

\* ensure_user_seen(viewer)[key] = <the length read>; chat_messages answers
mark_store(h) ==
    LET key == conversation_key(req[h].user, req[h].partner)
    IN  /\ pc[h] = "mark_store"
        /\ user_seen' = StoreSeen(user_seen, req[h].user, key, req[h].n)
        /\ Respond(h, [status |-> 200, messages |-> req[h].view])
        /\ UNCHANGED <<users, conversations, appended>>

(* ---------------------------- fetch ------------------------------------ *)

\* GET /chat/<partner>/messages (and GET /chat/<partner>, which differs in the
\* page it renders) up to the call of serialize_messages(..., mark_seen=True)
chat_messages(h, session, partner) ==
    LET user        == current_user(session)
        partner_key == lower(partner)
    IN  /\ pc[h] = "idle"
        /\ IF user = None
           THEN Reject(h, "fetch", [status |-> 401])
           ELSE IF partner_key \notin DOMAIN users \/ partner_key = user
           THEN Reject(h, "fetch", [status |-> 400])
           ELSE /\ pc' = [pc EXCEPT ![h] = "serialize"]
                /\ req' = [req EXCEPT ![h] =
                       [IdleReq EXCEPT !.kind = "fetch", !.user = user,
                                       !.partner = partner_key,
                                       !.mark_seen = TRUE]]
        /\ UNCHANGED <<users, conversations, user_seen, appended>>

\* the response is delivered and the thread takes the next request
finish(h) ==
    /\ pc[h] = "done"
    /\ pc' = [pc EXCEPT ![h] = "idle"]
    /\ req' = [req EXCEPT ![h] = IdleReq]
    /\ UNCHANGED <<users, conversations, user_seen, appended>>

(* ---------------------------- dashboard -------------------------------- *)

\* sub in s, for two str
Contains(s, sub) ==
    \E k \in 0..(Len(s) - Len(sub)) : SubSeq(s, k + 1, k + Len(sub)) = sub

\* the least str of a non-empty set: the keys of a dict are visited in this order
MinStr(S) == CHOOSE x \in S : \A y \in S : ~StrLess(y, x)

\* the least key of a non-empty set of conversation keys
MinKey(S) ==
    CHOOSE x \in S : \A y \in S :
        ~(StrLess(y[1], x[1]) \/ (y[1] = x[1] /\ StrLess(y[2], x[2])))

\* items with item put in by display_name.lower(), behind its equals
RECURSIVE Insert(_, _)
Insert(items, item) ==
    IF items = <<>> THEN <<item>>
    ELSE IF StrLess(lower(item.display_name), lower(Head(items).display_name))
         THEN <<item>> \o items
         ELSE <<Head(items)>> \o Insert(Tail(items), item)

\* list.sort(key=lambda item: item["display_name"].lower())
RECURSIVE SortByName(_)
SortByName(items) ==
    IF items = <<>> THEN <<>>
    ELSE Insert(SortByName(SubSeq(items, 1, Len(items) - 1)), items[Len(items)])

\* the dict with the length of the log where the unread count belongs
Contact_counts_all(viewer, username) ==
    [username     |-> username,
     display_name |-> users[username].display_name,
     language     |-> users[username].language,
     unread_count |-> LogLen(conversations, conversation_key(viewer, username))]

\* the dict appended to matches and to recent_contacts
Contact(viewer, username) ==
    [username     |-> username,
     display_name |-> users[username].display_name,
     language     |-> users[username].language,
     unread_count |-> unread_count(viewer, username)]

\* GET /dashboard/data (and GET /dashboard, which renders the same payload)
\* up to the loop over users.items()
dashboard_data(h, session, query) ==
    LET user == current_user(session)
    IN  /\ pc[h] = "idle"
        /\ IF user = None
           THEN Reject(h, "dashboard", [status |-> 401])
           ELSE /\ pc' = [pc EXCEPT ![h] = "dash_matches"]
                /\ req' = [req EXCEPT ![h] =
                       [IdleReq EXCEPT !.kind = "dashboard", !.user = user,
                                       !.query = lower(strip(query)),
                                       !.todo = DOMAIN users,
                                       !.size = Cardinality(DOMAIN users)]]
        /\ UNCHANGED <<users, conversations, user_seen, appended>>

\* a dict that changed size under a loop: RuntimeError, which Flask answers 500
dash_matches_raises(h) ==
    /\ pc[h] = "dash_matches"
    /\ Cardinality(DOMAIN users) # req[h].size
    /\ Respond(h, [status |-> 500])
    /\ UNCHANGED <<users, conversations, user_seen, appended>>

\* one iteration of "for username, data in users.items()"
dash_matches_next(h) ==
    LET user     == req[h].user
        username == MinStr(req[h].todo)
        hit      == /\ username # user
                    /\ \/ req[h].query = <<>>
                       \/ Contains(lower(users[username].display_name), req[h].query)
    IN  /\ pc[h] = "dash_matches"
        /\ Cardinality(DOMAIN users) = req[h].size
        /\ req[h].todo # {}
        /\ req' = [req EXCEPT
               ![h].todo = @ \ {username},
               ![h].matches = IF hit THEN Append(@, Contact(user, username)) ELSE @]
        /\ user_seen' = IF hit THEN ensure_user_seen(user_seen, user) ELSE user_seen
        /\ UNCHANGED <<users, conversations, pc, appended>>

\* the first loop ends: matches.sort(...), and the loop over conversations.keys()
dash_matches_end(h) ==
    /\ pc[h] = "dash_matches"
    /\ Cardinality(DOMAIN users) = req[h].size
    /\ req[h].todo = {}
    /\ req' = [req EXCEPT ![h].matches = SortByName(@),
                          ![h].todo = DOMAIN conversations,
                          ![h].size = Cardinality(DOMAIN conversations)]
    /\ pc' = [pc EXCEPT ![h] = "dash_recent"]
    /\ UNCHANGED <<users, conversations, user_seen, appended>>

dash_recent_raises(h) ==
    /\ pc[h] = "dash_recent"
    /\ Cardinality(DOMAIN conversations) # req[h].size
    /\ Respond(h, [status |-> 500])
    /\ UNCHANGED <<users, conversations, user_seen, appended>>

\* one iteration of "for key in conversations.keys()"
dash_recent_next(h) ==
    LET user  == req[h].user
        key   == MinKey(req[h].todo)
        other == IF key[1] # user THEN key[1] ELSE key[2]
        hit   == /\ user \in {key[1], key[2]}
                 /\ other \in DOMAIN users
                 /\ other \notin req[h].seen_partners
    IN  /\ pc[h] = "dash_recent"
        /\ Cardinality(DOMAIN conversations) = req[h].size
        /\ req[h].todo # {}
        /\ req' = [req EXCEPT
               ![h].todo = @ \ {key},
               ![h].seen_partners = IF hit THEN @ \cup {other} ELSE @,
               ![h].recent_contacts =
                   IF hit THEN Append(@, Contact(user, other)) ELSE @]
        /\ user_seen' = IF hit THEN ensure_user_seen(user_seen, user) ELSE user_seen
        /\ UNCHANGED <<users, conversations, pc, appended>>

\* the second loop ends: recent_contacts.sort(...), and the payload is returned
dash_recent_end(h) ==
    /\ pc[h] = "dash_recent"
    /\ Cardinality(DOMAIN conversations) = req[h].size
    /\ req[h].todo = {}
    /\ Respond(h, [status          |-> 200,
                   matches         |-> req[h].matches,
                   recent_contacts |-> SortByName(req[h].recent_contacts)])
    /\ UNCHANGED <<users, conversations, user_seen, appended>>

(* ---------------------------- settings --------------------------------- *)

\* the language change that drops the translations made for the user's old
\* language
settings_drops_translations(session, language_in) ==
    LET user         == current_user(session)
        new_language == strip(language_in)
    IN  /\ user # None
        /\ new_language # <<>>
        /\ users' = [users EXCEPT ![user].language = new_language]
        /\ conversations' =
               [k \in DOMAIN conversations |->
                   [i \in 1..Len(conversations[k]) |->
                       IF conversations[k][i].recipient = user
                       THEN [conversations[k][i] EXCEPT !.translated_text = <<>>]
                       ELSE conversations[k][i]]]
        /\ UNCHANGED <<user_seen, pc, req, appended>>

\* POST /settings with a language.  The handler touches the language of the
\* user only and renders the settings page: it is one step.
settings(session, language_in) ==
    LET user         == current_user(session)
        new_language == strip(language_in)
    IN  /\ user # None
        /\ new_language # <<>>
        /\ users' = [users EXCEPT ![user].language = new_language]
        /\ UNCHANGED <<conversations, user_seen, pc, req, appended>>

\* POST /settings that changes nothing: no session, or no language
settings_rejected(session, language_in) ==
    /\ current_user(session) = None \/ strip(language_in) = <<>>
    /\ UNCHANGED vars

(* ---------------------------- specification ---------------------------- *)

Next ==
    \/ \E name \in LoginNames, language \in LoginLanguages :
          login(name, language)
    \/ \E name \in LoginNames, language \in LoginLanguages :
          login_rejected(name, language)
    \/ \E h \in Handlers, session \in Sessions, partner \in PartnerNames,
          message \in RawMessages :
          send_message(h, session, partner, message)
    \/ \E h \in Handlers, response_text \in ProviderTexts :
          translate_returns(h, response_text)
    \/ \E h \in Handlers : translate_raises(h)
    \/ \E h \in Handlers : save_setdefault(h)
    \/ \E h \in Handlers : save_append(h)
    \/ \E h \in Handlers : save_len(h)
    \/ \E h \in Handlers : save_seen(h)
    \/ \E h \in Handlers : serialize_get(h)
    \/ \E h \in Handlers : serialize_next(h)
    \/ \E h \in Handlers : serialize_return(h)
    \/ \E h \in Handlers : serialize_end(h)
    \/ \E h \in Handlers : mark_len(h)
    \/ \E h \in Handlers : mark_store(h)
    \/ \E h \in Handlers, session \in Sessions, partner \in PartnerNames :
          chat_messages(h, session, partner)
    \/ \E h \in Handlers : finish(h)

Spec == Init /\ [][Next]_vars

\* Three users, hence three pairs, served by one thread: the requests run one
\* after the other and every step is still a step of the handlers above.
WideLoginNames == LoginNames \cup {<<99>>}
WidePartnerNames == PartnerNames \cup {<<99>>}
WideHandlers == {1}

NextWide ==
    \/ \E name \in WideLoginNames, language \in LoginLanguages :
          login(name, language)
    \/ \E name \in WideLoginNames, language \in LoginLanguages :
          login_rejected(name, language)
    \/ \E h \in WideHandlers, session \in Sessions, partner \in WidePartnerNames,
          message \in RawMessages :
          send_message(h, session, partner, message)
    \/ \E h \in WideHandlers, response_text \in ProviderTexts :
          translate_returns(h, response_text)
    \/ \E h \in WideHandlers : translate_raises(h)
    \/ \E h \in WideHandlers : save_setdefault(h)
    \/ \E h \in WideHandlers : save_append(h)
    \/ \E h \in WideHandlers : save_len(h)
    \/ \E h \in WideHandlers : save_seen(h)
    \/ \E h \in WideHandlers : serialize_get(h)
    \/ \E h \in WideHandlers : serialize_next(h)
    \/ \E h \in WideHandlers : serialize_return(h)
    \/ \E h \in WideHandlers : serialize_end(h)
    \/ \E h \in WideHandlers : mark_len(h)
    \/ \E h \in WideHandlers : mark_store(h)
    \/ \E h \in WideHandlers, session \in Sessions, partner \in WidePartnerNames :
          chat_messages(h, session, partner)
    \/ \E h \in WideHandlers : finish(h)

SpecWide == Init /\ [][NextWide]_vars

\* "", "B": the q of a dashboard request
Queries == {<<>>, <<66>>}

\* the steps of a dashboard request
DashboardStep(h) ==
    \/ \E session \in Sessions, query \in Queries : dashboard_data(h, session, query)
    \/ dash_matches_raises(h)
    \/ dash_matches_next(h)
    \/ dash_matches_end(h)
    \/ dash_recent_raises(h)
    \/ dash_recent_next(h)
    \/ dash_recent_end(h)

\* The two users and the two threads of Spec, with the dashboard requests.
NextDash ==
    \/ Next
    \/ \E h \in Handlers : DashboardStep(h)

SpecDash == Init /\ [][NextDash]_vars

\* "", "a", " B", "b": a login as "b" changes the display name of " B"
SeqLoginNames == LoginNames \cup {<<98>>}
\* "", "t ", " ": a provider may answer with white space only
SeqProviderTexts == ProviderTexts \cup {<<32>>}
\* "", "f": the languages typed into the settings form
SettingsLanguages == {<<>>, <<102>>}

\* Every request of the application, with one thread for the requests that
\* take several steps: these run one after the other, and a login or a change
\* of language may fall between two of their steps.
NextSeq ==
    \/ \E name \in SeqLoginNames, language \in LoginLanguages :
          login(name, language)
    \/ \E name \in SeqLoginNames, language \in LoginLanguages :
          login_rejected(name, language)
    \/ \E session \in Sessions, language \in SettingsLanguages :
          settings(session, language)
    \/ \E session \in Sessions, language \in SettingsLanguages :
          settings_rejected(session, language)
    \/ \E h \in WideHandlers, session \in Sessions, partner \in PartnerNames,
          message \in RawMessages :
          send_message(h, session, partner, message)
    \/ \E h \in WideHandlers, response_text \in SeqProviderTexts :
          translate_returns(h, response_text)
    \/ \E h \in WideHandlers : translate_raises(h)
    \/ \E h \in WideHandlers : save_setdefault(h)
    \/ \E h \in WideHandlers : save_append(h)
    \/ \E h \in WideHandlers : save_len(h)
    \/ \E h \in WideHandlers : save_seen(h)
    \/ \E h \in WideHandlers : serialize_get(h)
    \/ \E h \in WideHandlers : serialize_next(h)
    \/ \E h \in WideHandlers : serialize_return(h)
    \/ \E h \in WideHandlers : serialize_end(h)
    \/ \E h \in WideHandlers : mark_len(h)
    \/ \E h \in WideHandlers : mark_store(h)
    \/ \E h \in WideHandlers, session \in Sessions, partner \in PartnerNames :
          chat_messages(h, session, partner)
    \/ \E h \in WideHandlers, session \in Sessions, query \in Queries :
          dashboard_data(h, session, query)
    \/ \E h \in WideHandlers : dash_matches_next(h)
    \/ \E h \in WideHandlers : dash_matches_end(h)
    \/ \E h \in WideHandlers : dash_recent_next(h)
    \/ \E h \in WideHandlers : dash_recent_end(h)
    \/ \E h \in WideHandlers : finish(h)

SpecSeq == Init /\ [][NextSeq]_vars

(* ---------------------------- claims ----------------------------------- *)

\* the step of handler h that leaves step "from" for step "to"
Moves(h, from, to) == pc[h] = from /\ pc'[h] = to

\* the conversation key of the request handler h serves
KeyOf(h) == conversation_key(req[h].user, req[h].partner)

\* C1: a send whose provider call raises mutates nothing: the step that takes
\* the request and the step in which the call raises leave every log and every
\* seen mark as they were, and the response is an error that carries no message.
C1_FailedSendMutatesNothing ==
    [][\A h \in Handlers :
        /\ (pc[h] = "idle" /\ pc'[h] # "idle" /\ req'[h].kind = "send")
              => conversations' = conversations /\ user_seen' = user_seen
        /\ (pc[h] = "translate" /\ pc'[h] \notin {"translate", "save_setdefault"})
              => /\ conversations' = conversations
                 /\ user_seen' = user_seen
                 /\ pc'[h] = "done"
                 /\ req'[h].resp.status = 500
                 /\ "message" \notin DOMAIN req'[h].resp]_vars

\* a send has failed in the provider call while its pair has a stored message
C1_Witness ==
    \E h \in Handlers :
        /\ pc[h] = "done" /\ req[h].kind = "send" /\ req[h].resp.status = 500
        /\ LogLen(conversations, KeyOf(h)) > 0

\* strings on which the key is computed: "", "a", "b", "ab", "ba", "B", "d"
KeyNames == {<<>>, <<97>>, <<98>>, <<97, 98>>, <<98, 97>>, <<66>>, <<100>>}

\* C2: conversation_key is symmetric, and the store holds one log per unordered
\* pair: no two keys name the same pair, every stored message lies in the log
\* of the key of its sender and recipient in either order, and every seen mark
\* is filed under such a key.
C2_OneLogPerPair ==
    /\ \A a \in KeyNames, b \in KeyNames :
          conversation_key(a, b) = conversation_key(b, a)
    /\ \A k1 \in DOMAIN conversations, k2 \in DOMAIN conversations :
          {k1[1], k1[2]} = {k2[1], k2[2]} => k1 = k2
    /\ \A k \in DOMAIN conversations : \A i \in 1..Len(conversations[k]) :
          LET e == conversations[k][i]
          IN  /\ conversation_key(e.sender, e.recipient) = k
              /\ conversation_key(e.recipient, e.sender) = k
    /\ \A u \in DOMAIN user_seen : \A k \in DOMAIN user_seen[u] :
          /\ u \in {k[1], k[2]}
          /\ conversation_key(k[1], k[2]) = k
          /\ conversation_key(k[2], k[1]) = k

\* a log holds messages of both directions and both users have a mark for it
C2_Witness ==
    \E k \in DOMAIN conversations :
        /\ \E i, j \in 1..Len(conversations[k]) :
              conversations[k][i].sender = conversations[k][j].recipient
        /\ \A u \in {k[1], k[2]} :
              u \in DOMAIN user_seen /\ k \in DOMAIN user_seen[u]

\* C3: every seen mark lies between 0 and the length of its log, and the
\* unread count of every viewer is that length minus the mark, unclamped.
C3_SeenWithinLog ==
    /\ \A u \in DOMAIN user_seen : \A k \in DOMAIN user_seen[u] :
          0 <= user_seen[u][k] /\ user_seen[u][k] <= LogLen(conversations, k)
    /\ \A u \in DOMAIN users, p \in DOMAIN users :
          LET k == conversation_key(u, p)
          IN  /\ unread_count(u, p) = LogLen(conversations, k) - SeenOf(user_seen, u, k)
              /\ unread_count(u, p) >= 0

\* a viewer has a mark strictly inside a log: something seen, something unread
C3_Witness ==
    \E u \in DOMAIN user_seen : \E k \in DOMAIN user_seen[u] :
        0 < user_seen[u][k] /\ user_seen[u][k] < LogLen(conversations, k)

\* C4: when save_message(A, B, ...) returns, A has no unread message of the
\* pair; its append raised the unread count of B by one, and none of its steps
\* changed the seen mark of B.
C4_AfterSend ==
    [][\A h \in Handlers :
        LET A == req[h].user
            B == req[h].partner
            unreadA == unread_count_in(user_seen', conversations', A, B)
            unreadB == unread_count_in(user_seen', conversations', B, A)
        IN  /\ Moves(h, "save_seen", "serialize") => unreadA = 0
            /\ Moves(h, "save_append", "save_len")
                  => unreadB = unread_count(B, A) + 1
            /\ (pc[h] \in {"save_setdefault", "save_append", "save_len", "save_seen"}
                  /\ pc'[h] # pc[h])
                  => SeenOf(user_seen', B, KeyOf(h)) = SeenOf(user_seen, B, KeyOf(h))]_vars

\* C5: the append of save_message makes the log of the key of {sender,
\* recipient} one longer with the message as its last entry, and leaves every
\* other log as long as it was; no other step of save_message changes a length.
C5_AppendAddsOne ==
    [][\A h \in Handlers :
        /\ Moves(h, "save_append", "save_len") =>
              LET key == KeyOf(h)
                  log == conversations'[key]
              IN  /\ Len(log) = LogLen(conversations, key) + 1
                  /\ log[Len(log)].sender = req[h].user
                  /\ log[Len(log)].recipient = req[h].partner
                  /\ log[Len(log)].original_text = req[h].text
                  /\ log[Len(log)].translated_text = req[h].translated
                  /\ SubSeq(log, 1, Len(log) - 1) = conversations[key]
                  /\ DOMAIN conversations' = DOMAIN conversations
                  /\ \A k \in DOMAIN conversations \ {key} :
                        conversations'[k] = conversations[k]
        /\ (pc[h] \in {"save_setdefault", "save_len", "save_seen"} /\ pc'[h] # pc[h])
              => \A k \in DOMAIN conversations' :
                    Len(conversations'[k]) = LogLen(conversations, k)]_vars

\* a message has just been appended to one log while another log has messages
C5_Witness ==
    \E h \in Handlers :
        /\ pc[h] = "save_len"
        /\ \E k \in DOMAIN conversations \ {KeyOf(h)} : Len(conversations[k]) > 0

\* C6: no state shows a stored message that its own sender has not seen: the
\* seen mark of the sender of the i-th message of a log is at least i.
C6_OwnMessageSeen ==
    \A k \in DOMAIN conversations : \A i \in 1..Len(conversations[k]) :
        SeenOf(user_seen, conversations[k][i].sender, k) >= i

\* C7: no step lowers a seen mark.
C7_SeenNeverDecreases ==
    [][\A u \in DOMAIN user_seen : \A k \in DOMAIN user_seen[u] :
        SeenOf(user_seen', u, k) >= user_seen[u][k]]_vars

\* C8: every log is the sequence of the messages appended to it, each once and
\* in the order of the appends: racing sends lose and duplicate nothing.
C8_RacingSendsAdmitted ==
    /\ \A k \in DOMAIN conversations : conversations[k] = Get(appended, k, <<>>)
    /\ \A k \in DOMAIN appended : Get(conversations, k, <<>>) = appended[k]

\* two sends of one pair are both between their append and their return, and
\* the log of the pair, created for them, holds two messages
C8_Witness ==
    \E h1 \in Handlers, h2 \in Handlers :
        /\ h1 # h2
        /\ pc[h1] \in {"save_len", "save_seen"}
        /\ pc[h2] \in {"save_len", "save_seen"}
        /\ KeyOf(h1) = KeyOf(h2)
        /\ Len(conversations[KeyOf(h1)]) = 2

\* C9: the response of a successful send is the sender's view of the message
\* that send appended.
C9_ResponseIsOwnMessage ==
    \A h \in Handlers :
        (pc[h] = "done" /\ req[h].kind = "send" /\ req[h].resp.status = 200)
            => /\ req[h].resp.message.is_self
               /\ req[h].resp.message.created_by = req[h].user
               /\ req[h].resp.message.primary_text = req[h].text

\* C10: mark_conversation_seen called twice in a row leaves what one call
\* leaves: the mark is the length of the log and nothing is unread.
C10_MarkSeenIdempotent ==
    \A v \in DOMAIN users, p \in DOMAIN users :
        LET k     == conversation_key(v, p)
            once  == mark_conversation_seen(user_seen, conversations, v, p)
            twice == mark_conversation_seen(once, conversations, v, p)
        IN  /\ twice = once
            /\ SeenOf(once, v, k) = LogLen(conversations, k)
            /\ unread_count_in(once, conversations, v, p) = 0
            /\ unread_count_in(twice, conversations, v, p) = 0

\* a fetch has marked a conversation that has messages, and the viewer had a
\* mark for it before
C10_Witness ==
    \E h \in Handlers :
        /\ pc[h] = "done" /\ req[h].kind = "fetch" /\ req[h].resp.status = 200
        /\ Len(req[h].resp.messages) > 0
        /\ SeenOf(user_seen, req[h].user, KeyOf(h)) = LogLen(conversations, KeyOf(h))

\* the partner of user in the conversation key
OtherOf(key, user) == IF key[1] # user THEN key[1] ELSE key[2]

\* the handler h appends to the log of key in this step
AppendsTo(h, key) == Moves(h, "save_append", "save_len") /\ KeyOf(h) = key

\* the handler h stores the seen mark of user for key in this step
StoresMark(h, user, key) ==
    /\ Moves(h, "save_seen", "serialize") \/ Moves(h, "mark_store", "done")
    /\ req[h].user = user
    /\ KeyOf(h) = key

\* C11: the unread count of B for A grows by one with every message appended to
\* their log and changes otherwise only when a request of B stores B's mark, so
\* n sends of A that B neither answers nor fetches add n; the dashboard of B
\* lists every partner whose log it visits with the unread count of that
\* moment, and its payload lists each partner with stored messages once; a
\* fetch of B that no send overtakes leaves B nothing unread.
C11_DashboardCountsUnread ==
    [][/\ \A B \in DOMAIN users : \A A \in DOMAIN users \ {B} :
            LET key      == conversation_key(B, A)
                after    == unread_count_in(user_seen', conversations', B, A)
                appends  == \E h \in Handlers : AppendsTo(h, key)
                storesB  == \E h \in Handlers : StoresMark(h, B, key)
            IN  /\ (appends /\ ~storesB) => (after = unread_count(B, A) + 1)
                /\ (~appends /\ ~storesB) => (after = unread_count(B, A))
       /\ \A h \in Handlers :
            /\ (pc[h] = "dash_recent" /\ pc'[h] = "dash_recent")
                  => \A key \in req[h].todo \ req'[h].todo :
                        req[h].user \in {key[1], key[2]}
                        => LET listed == req'[h].recent_contacts
                               last   == listed[Len(listed)]
                           IN  /\ Len(listed) = Len(req[h].recent_contacts) + 1
                               /\ last.username = OtherOf(key, req[h].user)
                               /\ last.unread_count =
                                     unread_count(req[h].user, last.username)
            /\ (Moves(h, "dash_recent", "done") /\ req'[h].resp.status = 200)
                  => \A A \in DOMAIN users :
                        LogLen(conversations, conversation_key(req[h].user, A)) > 0
                        => Cardinality({i \in DOMAIN req'[h].resp.recent_contacts :
                               /\ req'[h].resp.recent_contacts[i].username = A
                               /\ req'[h].resp.recent_contacts[i]
                                     \in {req[h].recent_contacts[j] :
                                            j \in DOMAIN req[h].recent_contacts}}) = 1
            /\ (Moves(h, "mark_store", "done")
                  /\ req[h].n = LogLen(conversations, KeyOf(h)))
                  => unread_count_in(user_seen', conversations',
                                     req[h].user, req[h].partner) = 0]_vars

\* the dashboard of a user who has sent and fetched nothing shows a partner
\* with two unread messages, the two the partner has sent
C11_Witness ==
    \E h \in Handlers :
        /\ pc[h] = "done" /\ req[h].kind = "dashboard" /\ req[h].resp.status = 200
        /\ \E i \in DOMAIN req[h].resp.recent_contacts :
              LET c   == req[h].resp.recent_contacts[i]
                  key == conversation_key(req[h].user, c.username)
              IN  /\ c.unread_count = 2
                  /\ Len(conversations[key]) = 2
                  /\ \A j \in 1..2 : conversations[key][j].sender = c.username
                  /\ SeenOf(user_seen, req[h].user, key) = 0

\* the steps of send_message after its validation
SendSteps ==
    {"translate", "save_setdefault", "save_append", "save_len", "save_seen",
     "serialize", "serialize_loop"}

\* C12: a send that fails the validation is answered 400 or 401 and goes no
\* further, so every send past the validation and every stored message has a
\* text that is stripped and not empty and a sender and a recipient that are
\* two different registered users, and no key pairs a user with themself.
C12_OnlyValidSendsStored ==
    /\ \A h \in Handlers :
          (req[h].kind = "send" /\ pc[h] \in SendSteps)
              => /\ req[h].text # <<>> /\ strip(req[h].text) = req[h].text
                 /\ req[h].user \in DOMAIN users
                 /\ req[h].partner \in DOMAIN users
                 /\ req[h].partner # req[h].user
    /\ \A k \in DOMAIN conversations :
          /\ k[1] # k[2]
          /\ \A i \in 1..Len(conversations[k]) :
                LET e == conversations[k][i]
                IN  /\ e.original_text # <<>>
                    /\ strip(e.original_text) = e.original_text
                    /\ e.sender \in DOMAIN users
                    /\ e.recipient \in DOMAIN users
                    /\ e.sender # e.recipient

\* a send has been answered 400 while its thread held nothing of it, and the
\* store has a message
C12_Witness ==
    /\ \E h \in Handlers :
          /\ pc[h] = "done" /\ req[h].kind = "send" /\ req[h].resp.status = 400
          /\ req[h].text = None
    /\ \E k \in DOMAIN conversations : Len(conversations[k]) > 0

\* the provider call of handler h has returned the empty string
EmptyResponse(h) == req[h].returned /\ req[h].response_text = <<>>

\* C13: a provider call that returns the empty string is no failure: the
\* handler goes on to save_message with the original text as the translation,
\* and its append adds one entry, whose translated_text is its original_text.
C13_EmptyResponseFallsBack ==
    [][\A h \in Handlers :
         /\ (pc[h] = "translate" /\ EmptyResponse(h)')
                => /\ pc'[h] = "save_setdefault"
                   /\ req'[h].translated = req[h].text
                   /\ UNCHANGED <<users, conversations, user_seen>>
         /\ (Moves(h, "save_append", "save_len") /\ EmptyResponse(h))
                => /\ Len(conversations'[KeyOf(h)])
                          = LogLen(conversations, KeyOf(h)) + 1
                   /\ conversations'[KeyOf(h)][Len(conversations'[KeyOf(h)])]
                          = Entry(req[h].user, req[h].partner,
                                  req[h].text, req[h].text)]_vars

\* a send whose provider call returned the empty string has appended its
\* message, with the original text in both slots
C13_Witness ==
    \E h \in Handlers :
        /\ pc[h] = "save_len" /\ EmptyResponse(h)
        /\ \E i \in 1..LogLen(conversations, KeyOf(h)) :
              LET e == conversations[KeyOf(h)][i]
              IN  /\ e.sender = req[h].user
                  /\ e.original_text = req[h].text
                  /\ e.translated_text = e.original_text

\* what a viewer is shown of a stored message m
Projection(viewer, m) ==
    IF m.sender = viewer
    THEN [is_self |-> TRUE, sender_label |-> You,
          primary_text |-> m.original_text, secondary_text |-> m.translated_text]
    ELSE [is_self |-> FALSE, sender_label |-> users[m.sender].display_name,
          primary_text |-> IF m.translated_text # <<>> THEN m.translated_text
                           ELSE m.original_text,
          secondary_text |-> m.original_text]

\* the same of an element of messages_for_view; the label of the other party
\* is the display name of the moment it was rendered
Shown(viewer, v) ==
    [is_self |-> v.is_self,
     sender_label |-> IF v.is_self THEN v.sender_label
                      ELSE users[v.created_by].display_name,
     primary_text |-> v.primary_text, secondary_text |-> v.secondary_text]

\* view is the projection for viewer of the first Len(view) messages of log
ProjectsPrefix(viewer, view, log) ==
    /\ Len(view) <= Len(log)
    /\ \A i \in 1..Len(view) :
          /\ Shown(viewer, view[i]) = Projection(viewer, log[i])
          /\ view[i].is_self => view[i].sender_label = You

\* handler h leaves the for loop of serialize_messages
LeavesLoop(h) ==
    Moves(h, "serialize_loop", "mark_len") \/ Moves(h, "serialize_loop", "done")

\* C14: what serialize_messages has rendered is, entry by entry and in log
\* order, the projection of the stored messages of the pair for the viewer; when
\* its loop ends it holds one entry per stored message (of a log missing at
\* the lookup: none), and a fetch answers with these entries.
C14_ProjectionRules ==
    /\ [](\A h \in Handlers :
            /\ pc[h] \in {"serialize_loop", "mark_len", "mark_store"}
                  => ProjectsPrefix(req[h].user, req[h].view,
                                    Get(conversations, KeyOf(h), <<>>))
            /\ (pc[h] = "done" /\ req[h].kind = "fetch"
                                /\ req[h].resp.status = 200)
                  => ProjectsPrefix(req[h].user, req[h].resp.messages,
                                    Get(conversations, KeyOf(h), <<>>)))
    /\ [][\A h \in Handlers :
            /\ Moves(h, "serialize", "serialize_loop")
                  => req'[h].live = (KeyOf(h) \in DOMAIN conversations)
            /\ LeavesLoop(h)
                  => Len(req[h].view) = IF req[h].live
                                        THEN LogLen(conversations, KeyOf(h))
                                        ELSE 0
            /\ Moves(h, "mark_store", "done")
                  => req'[h].resp.messages = req[h].view]_vars

\* a fetch has answered with two entries, the viewer's own message and a
\* message of the partner stored without a translation and shown by its
\* original text
C14_Witness ==
    \E h \in Handlers :
        /\ pc[h] = "done" /\ req[h].kind = "fetch" /\ req[h].resp.status = 200
        /\ Len(req[h].resp.messages) = 2
        /\ \E i, j \in 1..2 :
              /\ req[h].resp.messages[i].is_self
              /\ ~req[h].resp.messages[j].is_self
              /\ conversations[KeyOf(h)][j].translated_text = <<>>
              /\ req[h].resp.messages[j].primary_text
                     = conversations[KeyOf(h)][j].original_text

\* s is a prefix of t
IsPrefix(s, t) == Len(s) <= Len(t) /\ SubSeq(t, 1, Len(s)) = s

\* C15: no step (of a send, a fetch, a dashboard request, a login or a change
\* of language) removes a log or changes what a log holds other than by adding
\* entries at its end.
C15_LogsAppendOnly ==
    [][\A k \in DOMAIN conversations :
          /\ k \in DOMAIN conversations'
          /\ IsPrefix(conversations[k], conversations'[k])]_vars

\* a log holds the two messages appended to it, one of them translated for a
\* user whose language is now one that only the settings set
C15_Witness ==
    \E k \in DOMAIN conversations :
        /\ Len(conversations[k]) = 2
        /\ conversations[k] = appended[k]
        /\ \E i \in 1..2 :
              LET u == users[conversations[k][i].recipient]
              IN  /\ u.language = <<102>>
                  /\ u.display_name # conversations[k][i].recipient
                  /\ conversations[k][i].translated_text # <<>>

\* the usernames of a list of contacts
Usernames(contacts) == {contacts[i].username : i \in DOMAIN contacts}

\* C16: the recent_contacts of a dashboard payload name each partner once, and
\* only users other than the viewer who have a stored message with the viewer.
\* (Logs only grow, so a partner without a stored message when the payload is
\* returned had none while it was built.)
C16_RecentContactsHaveMessages ==
    \A h \in Handlers :
        (pc[h] = "done" /\ req[h].kind = "dashboard" /\ req[h].resp.status = 200)
            => LET contacts == req[h].resp.recent_contacts
               IN  /\ Cardinality(Usernames(contacts)) = Len(contacts)
                   /\ \A A \in Usernames(contacts) :
                         /\ A \in DOMAIN users \ {req[h].user}
                         /\ LogLen(conversations,
                                   conversation_key(req[h].user, A)) > 0

\* the steps of build_dashboard_payload (with its calls of unread_count), and
\* those of serialize_messages before the call of mark_conversation_seen
ReadSteps ==
    {"dash_matches", "dash_recent", "serialize", "serialize_loop", "mark_len"}

\* handler h takes a step
Acts(h) == pc'[h] # pc[h] \/ req'[h] # req[h]

\* C17: a step of build_dashboard_payload, of unread_count or of the reading
\* part of serialize_messages changes no log, creates no log, and changes no
\* seen mark (it may give a user the empty dict of marks); a pair without a
\* log is rendered as the empty list.
C17_ReadsDoNotMutate ==
    [][\A h \in Handlers :
         (pc[h] \in ReadSteps /\ Acts(h))
            => /\ conversations' = conversations
               /\ DOMAIN user_seen \subseteq DOMAIN user_seen'
               /\ \A u \in DOMAIN user_seen' :
                     user_seen'[u] = Get(user_seen, u, EmptyDict)
               /\ (pc'[h] = "serialize_loop"
                     /\ KeyOf(h) \notin DOMAIN conversations)
                     => ~HasNext(h)' /\ req'[h].view = <<>>]_vars

\* a dashboard payload has been built for a user who has no log with the other
\* user: the other user is a match and no recent contact, and there is still
\* no log and no seen mark
C17_Witness ==
    \E h \in Handlers :
        /\ pc[h] = "done" /\ req[h].kind = "dashboard" /\ req[h].resp.status = 200
        /\ req[h].resp.matches # <<>>
        /\ req[h].resp.recent_contacts = <<>>
        /\ conversations = EmptyDict
        /\ \A u \in DOMAIN user_seen : user_seen[u] = EmptyDict

\* C18: the seen mark a fetch stores equals the number of entries it returns.
C18_MarkEqualsDelivered ==
    [][\A h \in Handlers :
         Moves(h, "mark_store", "done")
            => SeenOf(user_seen', req[h].user, KeyOf(h))
                  = Len(req'[h].resp.messages)]_vars

\* C19: every stored message has a translated_text that is not empty.
C19_TranslationNeverEmpty ==
    \A k \in DOMAIN conversations :
        \A i \in 1..Len(conversations[k]) :
            conversations[k][i].translated_text # <<>>

\* C20: the steps of mark_conversation_seen(viewer, partner) change nothing
\* but the viewer's seen mark for the key of the two: every other mark of the
\* viewer, every mark of every other user, the logs and the users stay.
C20_MarkIsPerViewerAndPair ==
    [][\A h \in Handlers :
         (pc[h] \in {"mark_len", "mark_store"} /\ Acts(h))
            => /\ conversations' = conversations
               /\ users' = users
               /\ DOMAIN user_seen' = DOMAIN user_seen \cup {req[h].user}
               /\ \A u \in DOMAIN user_seen' :
                     \A k \in DOMAIN user_seen'[u] \cup
                                 DOMAIN Get(user_seen, u, EmptyDict) :
                        (u # req[h].user \/ k # KeyOf(h))
                           => /\ k \in DOMAIN user_seen'[u]
                              /\ k \in DOMAIN Get(user_seen, u, EmptyDict)
                              /\ user_seen'[u][k] = user_seen[u][k]]_vars

\* a fetch has marked a conversation seen for the viewer; the partner's mark
\* for it is another one, and the viewer's conversation with a third user
\* still has its message unread
C20_Witness ==
    \E h \in Handlers :
        /\ pc[h] = "done" /\ req[h].kind = "fetch" /\ req[h].resp.status = 200
        /\ SeenOf(user_seen, req[h].user, KeyOf(h)) = 1
        /\ SeenOf(user_seen, req[h].partner, KeyOf(h)) = 0
        /\ \E c \in DOMAIN users \ {req[h].user, req[h].partner} :
              /\ unread_count(req[h].user, c) = 1
              /\ SeenOf(user_seen, c, conversation_key(req[h].user, c)) = 1

====
